---------------------------- MODULE Spec2Model ----------------------------
(***************************************************************************)
(* Model of the English-Tunisian translation scraper (src/en_tn):          *)
(*   scraper.py       the pipeline driver, the retry policy, the progress  *)
(*                    store (load_processed_ids, save_checkpoint)          *)
(*   retry_failed.py  the failure re-processor                             *)
(* The files on disk are the durable state; one program runs at a time.    *)
(* A file is [exists, lines]; a line is a header row or a data row.  Rows  *)
(* written through an open handle sit in the handle's buffer until flush   *)
(* or close.  The English text of an item is a function of its input row   *)
(* and is left out of the rows.                                             *)
(***************************************************************************)
EXTENDS Integers, Sequences, FiniteSets, TLC

\* ------------------------------------------------------------- bounds
MaxRows  == 2      \* longest input TSV
NumFrags == 1      \* distinct non-empty translated fragments
MaxWork  == 6      \* program runs of a behaviour, weighted by their items
MaxFields == 4     \* most tab-separated fields of an input line

\* ------------------------------------------------- program constants
MAX_RETRIES == 3

Ids   == 1..MaxRows     \* sentence ids, no more of them than rows
Frags == 1..NumFrags
None  == 0         \* Python None / the empty string of a translation

\* a field of an input line: white space only, the text 'eng', or any other
\* text (an id, another tag, a sentence), written as an id
Blank == 0
ENG   == -1
Fields == {Blank, ENG} \cup Ids

RECURSIVE SeqsUpTo(_, _)
SeqsUpTo(S, n) ==
  IF n = 0 THEN {<<>>}
  ELSE LET shorter == SeqsUpTo(S, n - 1)
       IN  shorter \cup {Append(s, x) : s \in shorter, x \in S}

\* lines of the input TSV: the fields between the tabs
TsvRows == SeqsUpTo(Fields, MaxFields) \ {<<>>}
\* the well-formed line of an English sentence: id, tag, text
TsvLine(id) == <<id, ENG, id>>

VARIABLES
  tsv,            \* INPUT_TSV: the input rows
  out,            \* OUTPUT_CSV: the success sink
  failed,         \* FAILED_CSV: the failure sink
  retry,          \* RETRY_OUTPUT: the retry-results sink
  backup,         \* OUTPUT_CSV renamed to .csv.backup
  ckpt,           \* CHECKPOINT_FILE: the ids it holds (<<>>: no file)
  prog,           \* the running program: "idle", "scraper", "retry_failed"
  pc,             \* its position
  sentences,      \* the list the loop iterates (ids)
  processed_ids,  \* the set load_processed_ids returned
  idx,            \* the loop's position in sentences
  attempt,        \* translate_with_retry's attempt
  ret,            \* what translate_with_retry returned
  obuf,           \* buffer of the handle on OUTPUT_CSV
  fbuf,           \* buffer of the handle on FAILED_CSV / RETRY_OUTPUT
  success_count,
  fail_count,
  \* history of the current (or last) run, read by the properties only
  work,           \* weight of the runs started so far
  budget,         \* the weight up to which runs are explored
  thisProg,       \* the program of the current or the last run
  prevEnd,        \* <<program, how it ended>> of the run before it
  calls,          \* remote calls issued by this run
  started,        \* items of this run with a remote call issued
  outs,           \* outcomes of the current item's calls
  rsleeps,        \* retry delays slept for the current item
  delays,         \* inter-request delays slept since the last remote call
  hist,           \* <<id, status>> of every item whose outcome was returned
  out0,           \* OUTPUT_CSV as the run found it
  failed0,        \* FAILED_CSV as the run found it
  retry0,         \* RETRY_OUTPUT as the run found it
  intAt,          \* where the interrupt was taken ("" if none)
  readFail,       \* rows read before the success sink's read failed (-1: none)
  ended           \* "" while the run goes on, then "complete" or "interrupted"

vars == <<tsv, out, failed, retry, backup, ckpt, prog, pc, sentences,
          processed_ids, idx, attempt, ret, obuf, fbuf, success_count,
          fail_count, work, budget, thisProg, prevEnd, calls, started, outs,
          rsleeps, delays, hist, out0, failed0, retry0, intAt, readFail,
          ended>>

files   == <<out, failed, retry, backup, ckpt>>
runinfo == <<work, budget, thisProg, prevEnd>>
locals  == <<sentences, processed_ids, idx, attempt, ret, obuf, fbuf,
             success_count, fail_count>>

\* ------------------------------------------------------------ files
Absent  == [exists |-> FALSE, lines |-> <<>>]
Header  == [k |-> "hdr", id |-> None, tun |-> None, status |-> ""]
SuccessRow(id, tun)    == [k |-> "row", id |-> id, tun |-> tun, status |-> ""]
FailureRow(id, status) == [k |-> "row", id |-> id, tun |-> None, status |-> status]

\* open(path, 'a'): creates the file when it is absent, keeps its lines
OpenAppend(f) == [exists |-> TRUE, lines |-> f.lines]
\* open(path, 'w'): creates or truncates
OpenWrite(f)  == [exists |-> TRUE, lines |-> <<>>]

\* writer.writerow / writeheader: the row goes to the handle's buffer
WriteRow(buf, row) == Append(buf, row)

\* the buffer never reaches the file
FlushLost(f, buf) == f
\* file.flush / file.close: the buffer reaches the file
FlushTo(f, buf) == [f EXCEPT !.lines = @ \o buf]

RECURSIVE SeqMap(_, _)
\* ids of a sequence of rows, in order
SeqMap(s, i) == IF i > Len(s) THEN <<>> ELSE <<s[i].id>> \o SeqMap(s, i + 1)
RowIds(s) == SeqMap(s, 1)

Range(s) == {s[i] : i \in 1..Len(s)}
DataRows(s) == SelectSeq(s, LAMBDA l : l.k = "row")


\* --------------------------------------------------- pure functions
\* line.strip().split('\t'): the white space at both ends of the line goes,
\* the tabs of blank leading and trailing fields with it
RECURSIVE LStrip(_), RStrip(_)
LStrip(line) ==
  IF line # <<>> /\ Head(line) = Blank THEN LStrip(Tail(line)) ELSE line
RStrip(line) ==
  IF line # <<>> /\ line[Len(line)] = Blank
  THEN RStrip(SubSeq(line, 1, Len(line) - 1))
  ELSE line
StripSplit(line) ==
  LET parts == RStrip(LStrip(line))
  IN  IF parts = <<>> THEN <<Blank>> ELSE parts

\* read_sentences: the lines with at least three parts of which the second
\* is 'eng', in order; the first part is the id
SelectedParts(parts) == Len(parts) >= 3 /\ parts[2] = ENG
SelectedRow(r) == SelectedParts(StripSplit(r))
read_sentences(rows) ==
  LET split == [i \in 1..Len(rows) |-> StripSplit(rows[i])]
      sel   == SelectSeq(split, SelectedParts)
  IN  [i \in 1..Len(sel) |-> sel[i][1]]

\* a response body: whether it has a <p class="fs-3"> paragraph, and the
\* text left of its inner HTML once tags and blanks are stripped
Htmls == [para : BOOLEAN, inner : {None} \cup Frags]
extract_fs3_paragraph(html) ==
  IF ~html.para THEN None
  ELSE IF html.inner = None THEN None ELSE html.inner

\* the rows csv.DictReader yields before the read ends: all of them, or k
\* of them when the read raises after k rows (unreadable bytes follow the
\* k-th row); -1: the read does not raise
RowsRead(f, k) ==
  IF k = -1 THEN Len(f.lines) - 1
  ELSE IF k < Len(f.lines) - 1 THEN k ELSE Len(f.lines) - 1

\* the last row read is not added
ProcessedReadDropsLast(f, k) ==
  IF f.lines = <<>> \/ f.lines[1].k # "hdr" THEN {}
  ELSE {f.lines[i].id : i \in 2..RowsRead(f, k)}
\* the set load_processed_ids has built when the read ends (lines 102-110):
\* the first line gives the field names, so the rows have an 'id' key only
\* under a header line.  A header line read as a row carries the text
\* 'id', held here as None.
ProcessedRead(f, k) ==
  IF f.lines = <<>> \/ f.lines[1].k # "hdr" THEN {}
  ELSE {f.lines[i].id : i \in 2..(RowsRead(f, k) + 1)}

\* the filter left out
PendingUnfiltered(sents, processed) == sents
\* the run resumed after the id of the checkpoint marker
PendingAfterCheckpoint(sents, processed) ==
  LET rest == SelectSeq(sents, LAMBDA sid : sid \notin processed)
      at   == {i \in 1..Len(rest) : ckpt # <<>> /\ rest[i] = ckpt[Len(ckpt)]}
  IN  IF at = {} THEN rest
      ELSE SubSeq(rest, (CHOOSE i \in at : \A j \in at : j <= i) + 1, Len(rest))
\* main's filter of the sentences by processed_ids (scraper.py:163-165)
Pending(sents, processed) ==
  IF processed # {}
  THEN SelectSeq(sents, LAMBDA sid : sid \notin processed)
  ELSE sents

\* the test off by one
AttemptsRemainOffByOne(a) == a < MAX_RETRIES
\* translate_with_retry's test that attempts remain after a RequestException
AttemptsRemain(a) == a < MAX_RETRIES - 1

\* ------------------------------------------------------------- Init
NoRet == [translation |-> None, status |-> ""]

\* ids are only compared for equality: an input is taken with its ids
\* numbered in the order of their first occurrence
FirstOccurrenceOrder(rows) ==
  \A i \in 1..Len(rows) :
    \/ rows[i][1] = 1
    \/ \E j \in 1..(i - 1) : rows[j][1] >= rows[i][1] - 1

\* a run is explored when its weight, one more than the items it takes
\* up, fits in what is left of the budget
Cost(todo) == 1 + Len(todo)
WithinBudget(todo) == work + Cost(todo) <= budget

\* no program has run yet: the working directory holds the input only
NothingRun(b) ==
  /\ out = Absent /\ failed = Absent /\ retry = Absent /\ backup = Absent
  /\ ckpt = <<>>
  /\ prog = "idle" /\ pc = "idle"
  /\ sentences = <<>> /\ processed_ids = {}
  /\ idx = 0 /\ attempt = 0 /\ ret = NoRet
  /\ obuf = <<>> /\ fbuf = <<>>
  /\ success_count = 0 /\ fail_count = 0
  /\ thisProg = "" /\ prevEnd = <<"", "">> /\ started = 0
  /\ work = 0 /\ budget = b
  /\ calls = 0 /\ outs = <<>> /\ rsleeps = 0 /\ delays = 0
  /\ hist = <<>>
  /\ out0 = Absent /\ failed0 = Absent /\ retry0 = Absent
  /\ intAt = "" /\ readFail = -1 /\ ended = ""

\* an input of well-formed English lines
Init ==
  /\ tsv \in SeqsUpTo({TsvLine(i) : i \in Ids}, MaxRows)
  /\ FirstOccurrenceOrder(tsv)
  /\ NothingRun(MaxWork)

\* a one-line input, with room for more runs over it
InitDeep ==
  /\ tsv = <<TsvLine(1)>>
  /\ NothingRun(MaxWork + MaxRows + 1)

\* an input of any lines, with room for one run over it
InitInput ==
  /\ tsv \in SeqsUpTo(TsvRows, MaxRows)
  /\ NothingRun(Cost(tsv))

\* what every program start resets
StartHistory ==
  /\ work' = work + Cost(sentences') /\ budget' = budget
  /\ prevEnd' = <<thisProg, ended>>
  /\ calls' = 0 /\ started' = 0 /\ outs' = <<>> /\ rsleeps' = 0 /\ delays' = 0
  /\ hist' = <<>> /\ intAt' = ""
  /\ out0' = out /\ failed0' = failed /\ retry0' = retry

\* ------------------------------------------- scraper.py main, start
\* lines 156-191: read the input, load the done-set, filter, return early
\* or open both sinks and write the headers of the ones just created.
\* k: the read of the success sink fails after k rows (-1: it succeeds).
MainStart(k) ==
  /\ prog = "idle"
  /\ k >= 0 => (out.exists /\ (k = 0 \/ k < Len(out.lines)))
  /\ LET all      == read_sentences(tsv)
         done     == IF out.exists THEN ProcessedRead(out, k) ELSE {}
         renamed  == k >= 0
         outNow   == IF renamed THEN Absent ELSE out
         todo     == Pending(all, done)
     IN  /\ WithinBudget(todo)
         /\ processed_ids' = done
         /\ readFail' = k
         /\ backup' = IF renamed THEN out ELSE backup
         /\ sentences' = todo
         /\ IF todo = <<>>
            THEN /\ out' = outNow
                 /\ UNCHANGED <<failed, prog, pc, idx, obuf, fbuf>>
                 /\ ended' = "complete"
            ELSE /\ out' = OpenAppend(outNow)
                 /\ obuf' = IF outNow.exists THEN <<>> ELSE <<Header>>
                 /\ failed' = OpenAppend(failed)
                 /\ fbuf' = IF failed.exists THEN <<>> ELSE <<Header>>
                 /\ prog' = "scraper" /\ pc' = "attempt"
                 /\ idx' = 1
                 /\ ended' = ""
  /\ thisProg' = "scraper"
  /\ attempt' = 0 /\ ret' = NoRet
  /\ success_count' = 0 /\ fail_count' = 0
  /\ StartHistory
  /\ UNCHANGED <<tsv, retry, ckpt>>

\* ----------------------------------------------- translate_with_retry
\* line 76: the request is sent
CallKlemy ==
  /\ pc = "attempt"
  /\ pc' = "inflight"
  /\ calls' = calls + 1 /\ delays' = 0
  /\ started' = IF attempt = 0 THEN started + 1 ELSE started
  /\ UNCHANGED <<tsv, files, prog, locals, runinfo, outs, rsleeps, hist,
                 out0, failed0, retry0, intAt, readFail, ended>>

\* what a client call came to: a fragment extracted, an empty extraction,
\* a RequestException
Outcome(kind, frag) == [kind |-> kind, frag |-> frag]

\* the status returned without the translation
ReturnedStatusOnly(translation, status) ==
  /\ ret' = [translation |-> None, status |-> status]
  /\ hist' = Append(hist, <<sentences[idx], status>>)
  /\ pc' = "route"

\* translate_with_retry returns (translation, status) to the loop
Returned(translation, status) ==
  /\ ret' = [translation |-> translation, status |-> status]
  /\ hist' = Append(hist, <<sentences[idx], status>>)
  /\ pc' = "route"

\* lines 77-80: a fragment was extracted
AttemptSuccess ==
  /\ pc = "inflight"
  /\ \E html \in Htmls :
       /\ extract_fs3_paragraph(html) # None
       /\ Returned(extract_fs3_paragraph(html), "success")
       /\ outs' = Append(outs, Outcome("fragment", extract_fs3_paragraph(html)))
  /\ UNCHANGED <<tsv, files, prog, sentences, processed_ids, idx, attempt,
                 obuf, fbuf, success_count, fail_count, runinfo, calls, started, rsleeps,
                 delays, out0, failed0, retry0, intAt, readFail, ended>>

\* the test of the extracted translation left out
AttemptNoTranslationAsSuccess ==
  /\ pc = "inflight"
  /\ \E html \in Htmls :
       /\ extract_fs3_paragraph(html) = None
       /\ Returned(extract_fs3_paragraph(html), "success")
  /\ outs' = Append(outs, Outcome("empty", None))
  /\ UNCHANGED <<tsv, files, prog, sentences, processed_ids, idx, attempt,
                 obuf, fbuf, success_count, fail_count, runinfo, calls, started, rsleeps,
                 delays, out0, failed0, retry0, intAt, readFail, ended>>

\* lines 81-86: no fragment; the return is outside the last-attempt test
AttemptNoTranslation ==
  /\ pc = "inflight"
  /\ \E html \in Htmls :
       /\ extract_fs3_paragraph(html) = None
       /\ Returned(None, "no_translation")
  /\ outs' = Append(outs, Outcome("empty", None))
  /\ UNCHANGED <<tsv, files, prog, sentences, processed_ids, idx, attempt,
                 obuf, fbuf, success_count, fail_count, runinfo, calls, started, rsleeps,
                 delays, out0, failed0, retry0, intAt, readFail, ended>>

\* lines 88-95: call_klemy raised requests.RequestException
AttemptRequestException ==
  /\ pc = "inflight"
  /\ outs' = Append(outs, Outcome("neterr", None))
  /\ IF AttemptsRemain(attempt)
     THEN pc' = "retry_sleep" /\ UNCHANGED <<ret, hist>>
     ELSE Returned(None, "error")
  /\ UNCHANGED <<tsv, files, prog, sentences, processed_ids, idx, attempt,
                 obuf, fbuf, success_count, fail_count, runinfo, calls, started, rsleeps,
                 delays, out0, failed0, retry0, intAt, readFail, ended>>

\* line 91, then the next iteration of line 74; line 97 when the range ends
RetrySleep ==
  /\ pc = "retry_sleep"
  /\ rsleeps' = rsleeps + 1
  /\ attempt' = attempt + 1
  /\ IF attempt + 1 < MAX_RETRIES
     THEN pc' = "attempt" /\ UNCHANGED <<ret, hist>>
     ELSE Returned(None, "error")
  /\ UNCHANGED <<tsv, files, prog, sentences, processed_ids, idx, obuf,
                 fbuf, success_count, fail_count, runinfo, calls, started, outs, delays,
                 out0, failed0, retry0, intAt, readFail, ended>>

\* ------------------------------------------- scraper.py main, the loop
\* lines 201-207 and 210-216: the row is written through the handle
WriteRecord ==
  /\ prog = "scraper" /\ pc = "route"
  /\ IF ret.status = "success"
     THEN /\ obuf' = WriteRow(obuf, SuccessRow(sentences[idx], ret.translation))
          /\ fbuf' = fbuf
     ELSE /\ fbuf' = WriteRow(fbuf, FailureRow(sentences[idx], ret.status))
          /\ obuf' = obuf
  /\ pc' = "flush"
  /\ UNCHANGED <<tsv, files, prog, sentences, processed_ids, idx, attempt,
                 ret, success_count, fail_count, runinfo, calls, started, outs, rsleeps,
                 delays, hist, out0, failed0, retry0, intAt, readFail,
                 ended>>

\* the flush left out: the row stays in the buffer
FlushRecordSkipped ==
  /\ prog = "scraper" /\ pc = "flush"
  /\ pc' = "ckpt"
  /\ UNCHANGED <<tsv, files, prog, locals, runinfo, calls, started, outs, rsleeps,
                 delays, hist, out0, failed0, retry0, intAt, readFail,
                 ended>>

\* lines 208-209 and 217-218: flush, then count
FlushRecord ==
  /\ prog = "scraper" /\ pc = "flush"
  /\ IF ret.status = "success"
     THEN /\ out' = FlushTo(out, obuf) /\ obuf' = <<>>
          /\ success_count' = success_count + 1
          /\ UNCHANGED <<failed, fbuf, fail_count>>
     ELSE /\ failed' = FlushTo(failed, fbuf) /\ fbuf' = <<>>
          /\ fail_count' = fail_count + 1
          /\ UNCHANGED <<out, obuf, success_count>>
  /\ pc' = "ckpt"
  /\ UNCHANGED <<tsv, retry, backup, ckpt, prog, sentences, processed_ids,
                 idx, attempt, ret, runinfo, calls, started, outs, rsleeps, delays, hist,
                 out0, failed0, retry0, intAt, readFail, ended>>

\* the marker opened for append
WriteCheckpointAppends(old, id) == Append(old, id)
\* save_checkpoint: open(CHECKPOINT_FILE, 'w') and write the id
WriteCheckpoint(old, id) == <<id>>

\* line 221, save_checkpoint: the marker file is rewritten with the id
SaveCheckpoint ==
  /\ prog = "scraper" /\ pc = "ckpt"
  /\ ckpt' = WriteCheckpoint(ckpt, sentences[idx])
  /\ pc' = "sleep"
  /\ UNCHANGED <<tsv, out, failed, retry, backup, prog, locals, runinfo, calls, started,
                 outs, rsleeps, delays, hist, out0, failed0, retry0, intAt,
                 readFail, ended>>

\* no delay after an item that did not succeed
RequestDelayAfterSuccessOnly ==
  /\ pc = "sleep"
  /\ delays' = IF ret.status = "success" THEN delays + 1 ELSE delays
  /\ IF idx < Len(sentences)
     THEN /\ idx' = idx + 1 /\ attempt' = 0 /\ ret' = NoRet
          /\ outs' = <<>> /\ rsleeps' = 0
          /\ pc' = "attempt"
     ELSE /\ pc' = "finally"
          /\ UNCHANGED <<idx, attempt, ret, outs, rsleeps>>
  /\ UNCHANGED <<tsv, files, prog, sentences, processed_ids, obuf, fbuf,
                 success_count, fail_count, runinfo, calls, started, hist, out0, failed0,
                 retry0, intAt, readFail, ended>>

\* time.sleep(REQUEST_DELAY) (scraper.py:224, retry_failed.py:76), then the
\* for loop takes the next item or ends
RequestDelay ==
  /\ pc = "sleep"
  /\ delays' = delays + 1
  /\ IF idx < Len(sentences)
     THEN /\ idx' = idx + 1 /\ attempt' = 0 /\ ret' = NoRet
          /\ outs' = <<>> /\ rsleeps' = 0
          /\ pc' = "attempt"
     ELSE /\ pc' = "finally"
          /\ UNCHANGED <<idx, attempt, ret, outs, rsleeps>>
  /\ UNCHANGED <<tsv, files, prog, sentences, processed_ids, obuf, fbuf,
                 success_count, fail_count, runinfo, calls, started, hist, out0, failed0,
                 retry0, intAt, readFail, ended>>

\* the pcs inside the try block: KeyboardInterrupt is raised wherever the
\* program is, a request in flight and a sleep included
TryPcs == {"attempt", "inflight", "retry_sleep", "route", "flush", "ckpt",
           "sleep"}

\* the handles dropped with their buffers unwritten
CloseSinksNoFlush ==
  /\ out' = out /\ obuf' = <<>>
  /\ failed' = failed /\ fbuf' = <<>>
  /\ prog' = "idle" /\ pc' = "idle"

\* lines 229-230: both handles are closed, which flushes them
CloseSinks ==
  /\ out' = FlushTo(out, obuf) /\ obuf' = <<>>
  /\ failed' = FlushTo(failed, fbuf) /\ fbuf' = <<>>
  /\ prog' = "idle" /\ pc' = "idle"

\* lines 228-241 after the loop ended
MainFinally ==
  /\ prog = "scraper" /\ pc = "finally"
  /\ CloseSinks
  /\ ended' = "complete"
  /\ UNCHANGED <<tsv, retry, backup, ckpt, sentences, processed_ids, idx,
                 attempt, ret, success_count, fail_count, runinfo, calls, started, outs,
                 rsleeps, delays, hist, out0, failed0, retry0, intAt,
                 readFail>>

\* lines 226-241: KeyboardInterrupt is caught and the finally block runs
MainInterrupt ==
  /\ prog = "scraper" /\ pc \in TryPcs
  /\ intAt' = pc
  /\ CloseSinks
  /\ ended' = "interrupted"
  /\ UNCHANGED <<tsv, retry, backup, ckpt, sentences, processed_ids, idx,
                 attempt, ret, success_count, fail_count, runinfo, calls, started, outs,
                 rsleeps, delays, hist, out0, failed0, retry0, readFail>>

\* ---------------------------------------------- retry_failed.py main
\* the (id, english) pairs of the failure sink's rows (lines 25-29)
FailedRead(f) == IF f.lines = <<>> THEN <<>> ELSE RowIds(Tail(f.lines))

\* lines 20-46: return when the failure sink is absent or has no rows, or
\* open the success sink for append and the retry-results sink for write
RetryStart ==
  /\ prog = "idle"
  /\ LET todo == IF failed.exists THEN FailedRead(failed) ELSE <<>>
     IN  /\ WithinBudget(todo)
         /\ sentences' = todo
         /\ IF todo = <<>>
            THEN /\ UNCHANGED <<out, retry, prog, pc, idx, obuf, fbuf>>
                 /\ ended' = "complete"
            ELSE /\ out' = OpenAppend(out) /\ obuf' = <<>>
                 /\ retry' = OpenWrite(retry) /\ fbuf' = <<Header>>
                 /\ prog' = "retry_failed" /\ pc' = "attempt"
                 /\ idx' = 1
                 /\ ended' = ""
  /\ thisProg' = "retry_failed"
  /\ attempt' = 0 /\ ret' = NoRet
  /\ success_count' = 0 /\ fail_count' = 0
  /\ processed_ids' = {} /\ readFail' = -1
  /\ StartHistory
  /\ UNCHANGED <<tsv, failed, backup, ckpt>>

\* every retried item logged to the retry results, the successes too
RetryWriteRecordAll ==
  /\ prog = "retry_failed" /\ pc = "route"
  /\ obuf' = IF ret.status = "success"
             THEN WriteRow(obuf, SuccessRow(sentences[idx], ret.translation))
             ELSE obuf
  /\ fbuf' = WriteRow(fbuf, FailureRow(sentences[idx], ret.status))
  /\ pc' = "flush"
  /\ UNCHANGED <<tsv, files, prog, sentences, processed_ids, idx, attempt,
                 ret, success_count, fail_count, runinfo, calls, started,
                 outs, rsleeps, delays, hist, out0, failed0, retry0, intAt,
                 readFail, ended>>

\* lines 54-60 and 64-71
RetryWriteRecord ==
  /\ prog = "retry_failed" /\ pc = "route"
  /\ IF ret.status = "success"
     THEN /\ obuf' = WriteRow(obuf, SuccessRow(sentences[idx], ret.translation))
          /\ fbuf' = fbuf
     ELSE /\ fbuf' = WriteRow(fbuf, FailureRow(sentences[idx], ret.status))
          /\ obuf' = obuf
  /\ pc' = "flush"
  /\ UNCHANGED <<tsv, files, prog, sentences, processed_ids, idx, attempt,
                 ret, success_count, fail_count, runinfo, calls, started, outs, rsleeps,
                 delays, hist, out0, failed0, retry0, intAt, readFail,
                 ended>>

\* lines 61-62 and 72-73
RetryFlushRecord ==
  /\ prog = "retry_failed" /\ pc = "flush"
  /\ IF ret.status = "success"
     THEN /\ out' = FlushTo(out, obuf) /\ obuf' = <<>>
          /\ success_count' = success_count + 1
          /\ UNCHANGED <<retry, fbuf, fail_count>>
     ELSE /\ retry' = FlushTo(retry, fbuf) /\ fbuf' = <<>>
          /\ fail_count' = fail_count + 1
          /\ UNCHANGED <<out, obuf, success_count>>
  /\ pc' = "sleep"
  /\ UNCHANGED <<tsv, failed, backup, ckpt, prog, sentences, processed_ids,
                 idx, attempt, ret, runinfo, calls, started, outs, rsleeps, delays, hist,
                 out0, failed0, retry0, intAt, readFail, ended>>

\* lines 81-82: both handles are closed, which flushes them
CloseRetrySinks ==
  /\ out' = FlushTo(out, obuf) /\ obuf' = <<>>
  /\ retry' = FlushTo(retry, fbuf) /\ fbuf' = <<>>
  /\ prog' = "idle" /\ pc' = "idle"

\* lines 80-87 after the loop ended
RetryFinally ==
  /\ prog = "retry_failed" /\ pc = "finally"
  /\ CloseRetrySinks
  /\ ended' = "complete"
  /\ UNCHANGED <<tsv, failed, backup, ckpt, sentences, processed_ids, idx,
                 attempt, ret, success_count, fail_count, runinfo, calls, started, outs,
                 rsleeps, delays, hist, out0, failed0, retry0, intAt,
                 readFail>>

\* lines 78-87: KeyboardInterrupt is caught and the finally block runs
RetryInterrupt ==
  /\ prog = "retry_failed" /\ pc \in TryPcs
  /\ intAt' = pc
  /\ CloseRetrySinks
  /\ ended' = "interrupted"
  /\ UNCHANGED <<tsv, failed, backup, ckpt, sentences, processed_ids, idx,
                 attempt, ret, success_count, fail_count, runinfo, calls, started, outs,
                 rsleeps, delays, hist, out0, failed0, retry0, readFail>>

\* ------------------------------------------------------ specifications
TranslateWithRetry ==
  \/ CallKlemy
  \/ AttemptSuccess
  \/ AttemptNoTranslation
  \/ AttemptRequestException
  \/ RetrySleep

ScraperMain ==
  \/ \E k \in -1..Len(out.lines) : MainStart(k)
  \/ WriteRecord
  \/ FlushRecord
  \/ SaveCheckpoint
  \/ MainFinally
  \/ MainInterrupt

RetryFailedMain ==
  \/ RetryStart
  \/ RetryWriteRecord
  \/ RetryFlushRecord
  \/ RetryFinally
  \/ RetryInterrupt

\* the pipeline driver alone
NextPipeline == ScraperMain \/ TranslateWithRetry \/ RequestDelay
SpecPipeline == Init /\ [][NextPipeline]_vars

\* the pipeline driver and the failure re-processor, one at a time
Next == NextPipeline \/ RetryFailedMain
Spec == Init /\ [][Next]_vars

\* the same programs over a one-line input, more runs deep
SpecDeep == InitDeep /\ [][Next]_vars

\* between two runs the failure sink is moved away or deleted by hand: the
\* state the test of retry_failed.py:20 is there for
FailureSinkRemoved ==
  /\ prog = "idle" /\ failed.exists
  /\ failed' = Absent
  /\ UNCHANGED <<tsv, out, retry, backup, ckpt, prog, pc, locals, runinfo,
                 calls, started, outs, rsleeps, delays, hist, out0, failed0,
                 retry0, intAt, readFail, ended>>

\* the two programs, and the failure sink removed between runs
NextOperator == Next \/ FailureSinkRemoved
SpecOperator == Init /\ [][NextOperator]_vars

\* the start of the pipeline driver over any input lines
NextInput == \E k \in -1..Len(out.lines) : MainStart(k)
SpecInput == InitInput /\ [][NextInput]_vars

\* ------------------------------------------- what the properties read
NoDuplicates(seq) ==
  \A i, j \in 1..Len(seq) : seq[i] = seq[j] => i = j
Occurrences(seq, x) == Cardinality({i \in 1..Len(seq) : seq[i] = x})

\* the ids of the success sink's data rows, on disk and still buffered
SuccessIds == RowIds(DataRows(out.lines \o obuf))

\* the success sink this run appends to: the one it found, or a new one
\* when load_processed_ids renamed that one aside
OutBase == IF readFail >= 0 THEN Absent ELSE out0
\* the data rows on disk that were not there when the run started
NewRows(f, f0) == DataRows(SubSeq(f.lines, Len(f0.lines) + 1, Len(f.lines)))
NewSuccessRows == NewRows(out, OutBase)
NewFailureRows == NewRows(failed, failed0)

RECURSIVE FailureRowsOf(_)
\* the failure rows of the non-success outcomes of a history, in order
FailureRowsOf(h) ==
  IF h = <<>> THEN <<>>
  ELSE (IF h[1][2] = "success" THEN <<>> ELSE <<FailureRow(h[1][1], h[1][2])>>)
       \o FailureRowsOf(Tail(h))

HistIds(h) == [i \in 1..Len(h) |-> h[i][1]]
SuccessIdsOf(h) == HistIds(SelectSeq(h, LAMBDA e : e[2] = "success"))

InputIdsDistinct == NoDuplicates(read_sentences(tsv))
ScraperRan(how) == thisProg = "scraper" /\ prog = "idle" /\ ended = how

\* C1 as stated: after any pipeline runs, interrupted and resumed ones
\* included, no id is in more than one record of the success sink
C1_NoDuplicateSuccessIds == NoDuplicates(SuccessIds)

\* C1 amended: the same, for an input whose selected rows have pairwise
\* distinct ids
C1_NoDuplicateSuccessIdsDistinctInput ==
  InputIdsDistinct => NoDuplicates(SuccessIds)

\* a resumed run after an interrupted one adds a success row to a sink that
\* already held one
C1_Witness ==
  /\ InputIdsDistinct
  /\ prevEnd = <<"scraper", "interrupted">>
  /\ ScraperRan("complete")
  /\ readFail = -1
  /\ DataRows(out0.lines) # <<>>
  /\ Len(NewSuccessRows) > 0

ReprocessorRan(how) == thisProg = "retry_failed" /\ prog = "idle" /\ ended = how

\* C2: after a re-processing pass that ran to its end, every item that
\* succeeded on retry is in the success sink exactly once (over an input
\* whose ids are pairwise distinct)
C2_RetrySuccessExactlyOnce ==
  (InputIdsDistinct /\ ReprocessorRan("complete"))
    => \A i \in 1..Len(hist) :
         hist[i][2] = "success" => Occurrences(SuccessIds, hist[i][1]) = 1

\* C3 as stated: a pipeline run that follows a completed pipeline run over
\* the same sinks (no success sink was ever unreadable) issues no remote
\* call and changes neither sink
C3_SecondRunIdempotent ==
  (/\ thisProg = "scraper" /\ prevEnd = <<"scraper", "complete">>
   /\ readFail = -1 /\ backup = Absent)
    => calls = 0 /\ out = out0 /\ failed = failed0 /\ obuf = <<>> /\ fbuf = <<>>

\* the success sink the run found starts with its header line and has a
\* data row for every selected input id
AllInputRecorded ==
  /\ out0.lines # <<>> /\ out0.lines[1] = Header
  /\ \A r \in Range(tsv) :
       SelectedRow(r) =>
         \E i \in 2..Len(out0.lines) :
           out0.lines[i].k = "row" /\ out0.lines[i].id = r[1]

\* C3 amended: it does so when every input id is read back from the success
\* sink as done
C3_SecondRunIdempotentWhenAllDone ==
  (/\ thisProg = "scraper" /\ prevEnd = <<"scraper", "complete">>
   /\ readFail = -1
   /\ AllInputRecorded)
    => calls = 0 /\ out = out0 /\ failed = failed0 /\ obuf = <<>> /\ fbuf = <<>>

\* the second run over a sink that holds every id of a non-empty input
C3_Witness ==
  /\ ScraperRan("complete") /\ prevEnd = <<"scraper", "complete">>
  /\ readFail = -1
  /\ Len(read_sentences(tsv)) = MaxRows
  /\ AllInputRecorded
  /\ calls = 0 /\ out = out0

\* an interrupt taken with item idx's row written (flushed or not) and the
\* next item not begun, or before the first request of item idx
AfterRecord  == intAt \in {"flush", "ckpt", "sleep"}
BeforeFirst  == intAt = "attempt" /\ attempt = 0
\* an interrupt taken between the first request of item idx and the write
\* of its row
MidItem == intAt \in {"inflight", "retry_sleep", "route"}
             \/ (intAt = "attempt" /\ attempt > 0)
\* the items complete at the interrupt
ItemsComplete == IF AfterRecord THEN idx ELSE idx - 1

AllNetworkError(o) == o # <<>> /\ \A i \in 1..Len(o) : o[i].kind = "neterr"

\* C5: when translate_with_retry has returned for an item all of whose
\* client calls raised RequestException, it made MAX_RETRIES calls, slept
\* the retry delay MAX_RETRIES - 1 times and returned 'error'
C5_RetryBound ==
  (ret.status # "" /\ AllNetworkError(outs))
    => /\ Len(outs) = MAX_RETRIES
       /\ rsleeps = MAX_RETRIES - 1
       /\ ret = [translation |-> None, status |-> "error"]

\* the return after the last RequestException
C5_Witness ==
  /\ pc = "route" /\ AllNetworkError(outs) /\ ret.status = "error"
  /\ Len(outs) = MAX_RETRIES

\* C6: 'no_translation' is returned only for an empty fragment on attempt
\* MAX_RETRIES, after MAX_RETRIES client calls
C6_EmptyFragmentRetried ==
  ret.status = "no_translation"
    => Len(outs) = MAX_RETRIES /\ attempt = MAX_RETRIES - 1

\* C7: a complete re-processing pass over a failure sink holding A with
\* no_translation and B with error, in which A succeeds and B ends in
\* error, leaves a row for A in the success sink and exactly one data row in
\* the retry-results sink, B's with status error
C7_ReprocessingMerge ==
  \A a, b \in Ids :
    (/\ a # b
     /\ ReprocessorRan("complete")
     /\ DataRows(failed.lines) =
          <<FailureRow(a, "no_translation"), FailureRow(b, "error")>>
     /\ hist = <<<<a, "success">>, <<b, "error">>>>)
      => /\ a \in Range(RowIds(NewRows(out, out0)))
         /\ DataRows(retry.lines) = <<FailureRow(b, "error")>>
         /\ retry.lines[1] = Header

\* such a pass has ended
C7_Witness ==
  \E a, b \in Ids :
    /\ a # b
    /\ ReprocessorRan("complete")
    /\ DataRows(failed.lines) =
         <<FailureRow(a, "no_translation"), FailureRow(b, "error")>>
    /\ hist = <<<<a, "success">>, <<b, "error">>>>

\* C8: a pipeline run whose read of the success sink failed has the sink
\* renamed aside, an empty done-set and every input item pending
C8_CorruptSinkEmptyDoneSet ==
  (thisProg = "scraper" /\ readFail >= 0)
    => /\ backup = out0
       /\ processed_ids = {}
       /\ sentences = read_sentences(tsv)

\* the rows a pipeline run has on disk are those of the items it began
RunRecordCount == Len(NewSuccessRows) + Len(NewFailureRows)

\* C9 as stated: an interrupted pipeline run leaves no item with a remote
\* call issued and no row
C9_InterruptAtItemBoundary ==
  ScraperRan("interrupted") => RunRecordCount = started

\* C9 amended: the interrupt is taken where it arrives and no later item is
\* begun; the rows written before it are all on disk, and the one item in
\* progress is left without a row exactly when the interrupt arrives
\* between its first remote call and the write of its row
C9_InterruptLeavesAtMostCurrentItem ==
  ScraperRan("interrupted")
    => /\ started = (IF BeforeFirst THEN idx - 1 ELSE idx)
       /\ RunRecordCount = (IF MidItem THEN started - 1 ELSE started)
       /\ RowIds(NewSuccessRows) = SuccessIdsOf(SubSeq(hist, 1, RunRecordCount))
       /\ NewFailureRows = FailureRowsOf(SubSeq(hist, 1, RunRecordCount))

\* an interrupt during the request of the second item
C9_Witness ==
  /\ ScraperRan("interrupted") /\ intAt = "inflight"
  /\ started = 2 /\ RunRecordCount = 1

\* C10: while a request of a pipeline run is in flight, and when the run
\* has ended complete, the failure sink holds on disk, in order, a row with
\* the id and the status of every earlier item of the run whose outcome was
\* not success
C10_FailureRecordedBeforeNextItem ==
  (thisProg = "scraper" /\ (pc = "inflight" \/ ScraperRan("complete")))
    => NewFailureRows = FailureRowsOf(hist)

\* the request of the second item in flight after the first one failed
C10_Witness ==
  /\ prog = "scraper" /\ pc = "inflight" /\ idx = 2
  /\ Len(hist) = 1 /\ hist[1][2] # "success"
  /\ NewFailureRows = FailureRowsOf(hist)

\* a file that starts with the header row and has no other header row
OneHeader(f) ==
  /\ f.lines # <<>> /\ f.lines[1] = Header
  /\ \A i \in 2..Len(f.lines) : f.lines[i].k = "row"

\* C11: between program runs, after any pipeline runs and re-processing
\* passes, the success sink and the failure sink, when they exist, start
\* with the header row and hold no other header row
C11_OneHeaderPerSink ==
  prog = "idle" => /\ out.exists => OneHeader(out)
                   /\ failed.exists => OneHeader(failed)

\* the ids the success sink a run found gives as done: those of the rows
\* read under its header line
DoneIn(f, k) ==
  IF f.lines = <<>> \/ f.lines[1] # Header THEN {}
  ELSE {f.lines[i].id : i \in 2..(IF k = -1 THEN Len(f.lines) ELSE k + 1)}

\* C12: what a pipeline run does is fixed by the input, the success sink it
\* found and the client's outcomes, whatever the checkpoint marker holds:
\* its pending items are the selected input ids the sink does not give as
\* done, in input order; its remote calls go to them in that order; and when
\* it has ended complete the rows it added are those of the outcomes
C12_CheckpointNotRead ==
  thisProg = "scraper"
    => /\ sentences = SelectSeq(read_sentences(tsv),
                                LAMBDA sid : sid \notin DoneIn(out0, readFail))
       /\ HistIds(hist) = SubSeq(sentences, 1, Len(hist))
       /\ started <= Len(hist) + 1
       /\ ScraperRan("complete")
            => /\ RowIds(NewSuccessRows) = SuccessIdsOf(hist)
               /\ NewFailureRows = FailureRowsOf(hist)
               /\ Len(hist) = Len(sentences)

\* a run that found the marker holding the id of a pending item has a
\* request for that item in flight
C12_Witness ==
  /\ prog = "scraper" /\ pc = "inflight" /\ idx = 1 /\ started = 1
  /\ ckpt = <<sentences[1]>>
  /\ Len(sentences) > 1

\* a line with at least three tab-separated fields whose language tag, the
\* second of them, is 'eng'
TaggedEng(line) == Len(line) >= 3 /\ line[2] = ENG

\* C13: the items of a first pipeline run come from the input lines that
\* have at least three tab-separated fields and the language tag 'eng': the
\* other lines left out of the input, the run has the same items
C13_OnlyTaggedRowsSelected ==
  (thisProg = "scraper" /\ out0 = Absent)
    => sentences = read_sentences(SelectSeq(tsv, TaggedEng))

IsPrefix(s, t) == Len(s) <= Len(t) /\ s = SubSeq(t, 1, Len(s))

\* C14: after a re-processing pass, complete or interrupted, also one that
\* found no row in the failure sink, the retry-results sink, when there is
\* one, holds the failure rows of this pass's outcomes and no other row (all
\* of them when the pass ended complete)
C14_RetryResultsOfThisPass ==
  (thisProg = "retry_failed" /\ prog = "idle")
    => /\ IsPrefix(DataRows(retry.lines), FailureRowsOf(hist))
       /\ ended = "complete" => DataRows(retry.lines) = FailureRowsOf(hist)

Last(s) == s[Len(s)]
\* inside translate_with_retry: before a call, during it, in a retry delay
InRetryPolicy == pc \in {"attempt", "inflight", "retry_sleep"}

\* C15: once a client call of an item has given a non-empty fragment,
\* translate_with_retry has returned 'success' with that fragment: it is
\* out of its loop, that call is the item's last, every call before it
\* raised RequestException and was followed by one retry delay, and no
\* delay follows the call; and 'success' is returned in no other case
C15_FirstFragmentReturned ==
  /\ (outs # <<>> /\ Last(outs).kind = "fragment")
       => /\ Last(outs).frag # None
          /\ ret = [translation |-> Last(outs).frag, status |-> "success"]
          /\ ~InRetryPolicy
          /\ \A i \in 1..(Len(outs) - 1) : outs[i].kind = "neterr"
          /\ rsleeps = Len(outs) - 1
  /\ ret.status = "success" => (outs # <<>> /\ Last(outs).kind = "fragment")

\* 'success' returned from the last attempt, after RequestExceptions on all
\* the earlier ones
C15_Witness ==
  /\ pc = "route" /\ ret.status = "success"
  /\ Len(outs) = MAX_RETRIES /\ Last(outs).kind = "fragment"
  /\ ret.translation = Last(outs).frag

Statuses == {"success", "no_translation", "error"}

\* C16: translate_with_retry makes at most MAX_RETRIES client calls for an
\* item and cannot stop inside its loop: a step of it is always possible
\* there, and the attempt number, below MAX_RETRIES, counts the calls that
\* have ended.  It has returned nothing while it is in the loop and, after
\* it, one outcome for the item, with a status of Statuses and a translation
\* that is non-empty exactly when the status is 'success'
C16_TerminatesWithOneOutcome ==
  /\ attempt < MAX_RETRIES
  /\ Len(outs) + (IF pc = "inflight" THEN 1 ELSE 0) <= MAX_RETRIES
  /\ (prog # "idle" /\ InRetryPolicy)
       => /\ ENABLED TranslateWithRetry
          /\ Len(outs) = attempt + (IF pc = "retry_sleep" THEN 1 ELSE 0)
          /\ ret = NoRet
          /\ Len(hist) = idx - 1
  /\ (prog # "idle" /\ ~InRetryPolicy)
       => /\ ret.status \in Statuses
          /\ ret.translation # None <=> ret.status = "success"
          /\ Len(hist) = idx
          /\ hist[idx] = <<sentences[idx], ret.status>>

\* each of the three statuses is returned: 'error' after MAX_RETRIES calls
C16_Witness ==
  /\ pc = "route" /\ ret.status = "error" /\ Len(outs) = MAX_RETRIES
  /\ idx = 2 /\ hist[1][2] \in {"success", "no_translation"}

\* the ids in the data rows of a file
IdsIn(f) == Range(RowIds(DataRows(f.lines)))

\* C17: the items of a pipeline run that read the success sink it found
\* without a failure are the selected input ids that are in no row of that
\* sink, in input order, and its remote calls go to them in that order
C17_PendingIsInputMinusSuccessSink ==
  (thisProg = "scraper" /\ readFail = -1)
    => /\ sentences = SelectSeq(read_sentences(tsv),
                                LAMBDA sid : sid \notin IdsIn(out0))
       /\ HistIds(hist) = SubSeq(sentences, 1, Len(hist))

\* the marker during a run: the current item's id once save_checkpoint has
\* run for it, and the id of the item before it up to then
MarkerDuringRun ==
  /\ (prog = "scraper" /\ pc \in {"sleep", "finally"})
       => ckpt = <<sentences[idx]>>
  /\ (prog = "scraper" /\ InRetryPolicy /\ idx > 1)
       => ckpt = <<sentences[idx - 1]>>

\* C18 as stated: the marker holds one id; in a pipeline run it is the id of
\* the item just recorded from then until the next item is recorded; and
\* after a run that recorded an item, ended or interrupted, it is the id of
\* the last item the run recorded
C18_CheckpointIsLastRecorded ==
  /\ Len(ckpt) <= 1
  /\ MarkerDuringRun
  /\ (thisProg = "scraper" /\ prog = "idle" /\ RunRecordCount > 0)
       => ckpt = <<sentences[RunRecordCount]>>

\* C18 amended: after an interrupt that arrives between the write of an
\* item's row and save_checkpoint, the marker is still the id of the item
\* before it, although the row is on disk
C18_CheckpointLagsAtMostOneItem ==
  /\ Len(ckpt) <= 1
  /\ MarkerDuringRun
  /\ (thisProg = "scraper" /\ prog = "idle" /\ RunRecordCount > 0)
       => IF intAt \in {"flush", "ckpt"}
          THEN /\ RunRecordCount = idx
               /\ idx > 1 => ckpt = <<sentences[idx - 1]>>
          ELSE ckpt = <<sentences[RunRecordCount]>>

\* an interrupt between the second item's row and its save_checkpoint: two
\* rows on disk, the marker at the first item
C18_Witness ==
  /\ ScraperRan("interrupted") /\ intAt = "ckpt"
  /\ idx = 2 /\ RunRecordCount = 2
  /\ sentences[1] # sentences[2]
  /\ ckpt = <<sentences[1]>>

\* C19: in either program, when the first request of an item other than the
\* run's first is about to be sent, exactly one inter-request delay has
\* been slept since the last remote call, which was the previous item's,
\* and that item's outcome, of any status, is in the history; a retry of
\* the same item follows no inter-request delay
C19_OneDelayBetweenItems ==
  (prog # "idle" /\ pc = "attempt")
    => IF attempt = 0
       THEN /\ delays = (IF idx > 1 THEN 1 ELSE 0)
            /\ Len(hist) = idx - 1
       ELSE delays = 0

\* the second item of a re-processing pass about to be requested, after a
\* first item that ended in 'error'
C19_Witness ==
  /\ prog = "retry_failed" /\ pc = "attempt" /\ attempt = 0 /\ idx = 2
  /\ hist[1][2] = "error" /\ delays = 1

\* C20: after a pipeline run that ended without an interrupt, the success
\* sink having been renamed aside at its start or not, every selected input
\* id is in a row of the success sink or of the failure sink
C20_EveryInputIdRecorded ==
  ScraperRan("complete")
    => \A i \in 1..Len(read_sentences(tsv)) :
         read_sentences(tsv)[i] \in IdsIn(out) \cup IdsIn(failed)

=============================================================================
